---- MODULE Spec2Model ----
(***************************************************************************)
(* Tool-invocation conversation orchestrator (ToolUseAgent) of the         *)
(* agent-demos repository.  Three variants of the agent are modelled:      *)
(*   "custom"  src/custom_function_calling.py (positional directive        *)
(*             grammar, typed by the tool's signature)                     *)
(*   "step2"   src/openai_function_calling_example_step2.py (keyed         *)
(*             directive grammar, termination marker and message limit)    *)
(*   "ollama"  src/function_calling/ollama_function_calling_example.py     *)
(*             (provider-native tool calls, termination marker and limit)  *)
(*                                                                         *)
(* A text is a sequence of tokens.  Every token is an atomic piece of a    *)
(* Python string: the two directive delimiters, one punctuation or white-  *)
(* space character, one digit, or a word made of \w characters.  The only  *)
(* concatenation of other tokens that spells a delimiter is "TOOL_"        *)
(* followed by "CALL:"; a text never holds that pair side by side (Rejoin  *)
(* merges it), so regular-expression matching on the characters and on the *)
(* tokens agree.                                                           *)
(***************************************************************************)
EXTENDS Integers, Sequences, FiniteSets, TLC

(***************************************************************************)
(* Tokens                                                                  *)
(***************************************************************************)
TC == "TOOL_CALL:"
TE == "TOOL_CALL_END"
LP == "("
RP == ")"
SP == " "
NL == "\n"
COMMA == ","
QS == "'"
QD == "\""
EQ == "="
DOT == "."
MARKER == "TERMINATE"
\* the two halves of the opening delimiter
TC_HEAD == "TOOL_"
TC_TAIL == "CALL:"

Digits == {"0", "2", "5"}
\* the character SUPERSCRIPT TWO: a digit for str.isdigit, none for float()
SUP2 == "²"
DigitVal(t) == IF t = "0" THEN 0 ELSE IF t = "2" THEN 2 ELSE 5

\* tokens made of \w characters only (TOOL_CALL_END is one of them)
WordToks == Digits \cup {SUP2} \cup {"calculator", "foo", "a", "b", "c", "operator", "hi",
                         "done", "true", TE, MARKER, "terminate", TC_HEAD}

IsSpace(t) == t \in {SP, NL}
IsWord(t) == t \in WordToks
IsQuote(t) == t \in {QS, QD}

RECURSIVE Join(_)
\* the Python string a token sequence spells
Join(toks) == IF toks = <<>> THEN "" ELSE Head(toks) \o Join(Tail(toks))

RECURSIVE Rejoin(_)
\* the text that pieces put side by side spell: "TOOL_" next to "CALL:" is
\* the delimiter "TOOL_CALL:"
Rejoin(toks) ==
    IF Len(toks) < 2 THEN toks
    ELSE IF toks[1] = TC_HEAD /\ toks[2] = TC_TAIL
         THEN <<TC>> \o Rejoin(SubSeq(toks, 3, Len(toks)))
         ELSE <<toks[1]>> \o Rejoin(Tail(toks))

\* str.strip(): whitespace removed at both ends
RECURSIVE LStrip(_)
LStrip(toks) ==
    IF toks # <<>> /\ IsSpace(Head(toks)) THEN LStrip(Tail(toks)) ELSE toks
RECURSIVE RStrip(_)
RStrip(toks) ==
    IF toks # <<>> /\ IsSpace(toks[Len(toks)])
    THEN RStrip(SubSeq(toks, 1, Len(toks) - 1)) ELSE toks
Strip(toks) == RStrip(LStrip(toks))

\* str.strip('"\''): every quote character removed at both ends
RECURSIVE LStripQuotes(_)
LStripQuotes(toks) ==
    IF toks # <<>> /\ IsQuote(Head(toks)) THEN LStripQuotes(Tail(toks)) ELSE toks
RECURSIVE RStripQuotes(_)
RStripQuotes(toks) ==
    IF toks # <<>> /\ IsQuote(toks[Len(toks)])
    THEN RStripQuotes(SubSeq(toks, 1, Len(toks) - 1)) ELSE toks
StripQuotes(toks) == RStripQuotes(LStripQuotes(toks))

\* first index >= i of s that holds no whitespace (Len(s) + 1 if none): \s*
SkipSpaces(s, i) ==
    CHOOSE j \in i..(Len(s) + 1) :
        /\ \A k \in i..(j - 1) : IsSpace(s[k])
        /\ (j <= Len(s) => ~IsSpace(s[j]))

\* first index >= i of s that holds no word token: \w*
SkipWords(s, i) ==
    CHOOSE j \in i..(Len(s) + 1) :
        /\ \A k \in i..(j - 1) : IsWord(s[k])
        /\ (j <= Len(s) => ~IsWord(s[j]))

(***************************************************************************)
(* The directive pattern TOOL_CALL:\s*(\w+)\((.*?)\)\s*TOOL_CALL_END with  *)
(* re.DOTALL, tried at position i of s.                                    *)
(***************************************************************************)
\* the positions m of a ")" after which \s*TOOL_CALL_END matches
ClosesAt(s, m) ==
    /\ m <= Len(s)
    /\ s[m] = RP
    /\ LET n == SkipSpaces(s, m + 1) IN n <= Len(s) /\ s[n] = TE

MatchAt(s, i) ==
    LET j == SkipSpaces(s, i + 1)
        k == SkipWords(s, j)
        closes == {m \in (k + 1)..Len(s) : ClosesAt(s, m)}
        ok == /\ i <= Len(s)
              /\ s[i] = TC
              /\ k > j
              /\ k <= Len(s)
              /\ s[k] = LP
              /\ closes # {}
        \* (.*?) is lazy: the first closing position wins
        m == CHOOSE x \in closes : \A y \in closes : x <= y
    IN  IF ok
        THEN [ok |-> TRUE,
              name |-> Join(SubSeq(s, j, k - 1)),
              args_str |-> SubSeq(s, k + 1, m - 1),
              end |-> SkipSpaces(s, m + 1) + 1]
        ELSE [ok |-> FALSE, name |-> "", args_str |-> <<>>, end |-> i + 1]

RECURSIVE FindIter(_, _)
\* re.finditer: the non-overlapping matches of s from position i, left to right
FindIter(s, i) ==
    IF i > Len(s) THEN <<>>
    ELSE LET mt == MatchAt(s, i)
         IN  IF mt.ok THEN <<mt>> \o FindIter(s, mt.end)
             ELSE FindIter(s, i + 1)

(***************************************************************************)
(* _remove_tool_calls_from_content: re.sub of TOOL_CALL:.*?TOOL_CALL_END   *)
(* (re.DOTALL) by the empty string, then strip().                          *)
(***************************************************************************)
RECURSIVE RemoveSpans(_, _)
RemoveSpans(s, i) ==
    IF i > Len(s) THEN <<>>
    ELSE LET ends == {m \in (i + 1)..Len(s) : s[m] = TE}
         IN  IF s[i] = TC /\ ends # {}
             THEN RemoveSpans(s, (CHOOSE x \in ends : \A y \in ends : x <= y) + 1)
             ELSE <<s[i]>> \o RemoveSpans(s, i + 1)

\* the substitution without the strip()
_remove_tool_calls_from_content_unstripped(content) ==
    Rejoin(RemoveSpans(content, 1))

\* what is left of the text closes up before strip() trims it
_remove_tool_calls_from_content(content) ==
    Strip(Rejoin(RemoveSpans(content, 1)))

(***************************************************************************)
(* Values of tool arguments: a float n/d (in lowest terms, d > 0), a       *)
(* string, or a bool.  An int arises only as the result of bool            *)
(* arithmetic.                                                             *)
(***************************************************************************)
RECURSIVE Gcd(_, _)
Gcd(x, y) == IF y = 0 THEN x ELSE Gcd(y, x % y)
Abs(x) == IF x < 0 THEN -x ELSE x
Float(n, d) ==
    LET g == Gcd(Abs(n), d) IN [k |-> "float", n |-> n \div g, d |-> d \div g]
Str(s) == [k |-> "str", s |-> s]
Bool(b) == [k |-> "bool", b |-> b]
IntV(n) == [k |-> "int", n |-> n]

RECURSIVE DigitsVal(_)
\* the number a non-empty sequence of digit tokens spells
DigitsVal(toks) ==
    IF toks = <<>> THEN 0
    ELSE 10 * DigitsVal(SubSeq(toks, 1, Len(toks) - 1)) + DigitVal(toks[Len(toks)])
RECURSIVE Pow10(_)
Pow10(e) == IF e = 0 THEN 1 ELSE 10 * Pow10(e - 1)
AllDigits(toks) == \A i \in 1..Len(toks) : toks[i] \in Digits
\* str.isdigit() of a non-empty string
IsDigit(toks) == toks # <<>> /\ \A i \in 1..Len(toks) : toks[i] \in Digits \cup {SUP2}

\* float(x) of Python on the token alphabet: surrounding whitespace is
\* ignored, then an optional sign, digits and at most one decimal point with
\* a digit on at least one side.  ok = FALSE stands for ValueError.
ParseFloat(raw) ==
    LET toks == Strip(raw)
        signed == toks # <<>> /\ Head(toks) \in {"-", "+"}
        body == IF signed THEN Tail(toks) ELSE toks
        dots == {i \in 1..Len(body) : body[i] = DOT}
        p == IF dots = {} THEN Len(body) + 1 ELSE CHOOSE i \in dots : TRUE
        ip == SubSeq(body, 1, p - 1)
        fp == SubSeq(body, p + 1, Len(body))
        ok == /\ Cardinality(dots) <= 1
              /\ AllDigits(ip) /\ AllDigits(fp)
              /\ Len(ip) + Len(fp) > 0
        mag == DigitsVal(ip) * Pow10(Len(fp)) + DigitsVal(fp)
        sgn == IF signed /\ Head(toks) = "-" THEN -1 ELSE 1
    IN  IF ok THEN [ok |-> TRUE, v |-> Float(sgn * mag, Pow10(Len(fp)))]
        ELSE [ok |-> FALSE, v |-> Str(Join(raw))]

(***************************************************************************)
(* The tool registry: tool_functions and the signature of calculator.      *)
(***************************************************************************)
tool_functions == {"calculator"}
param_names == <<"a", "b", "operator">>
param_type == [a |-> "float", b |-> "float", operator |-> "str"]

\* args[key] = value of a Python dict
Put(args, key, value) ==
    [x \in (DOMAIN args) \cup {key} |-> IF x = key THEN value ELSE args[x]]
EmptyArgs == [x \in {} |-> Str("")]

\* json.dumps of an argument dict and json.loads of the result
JsonDumps(args) == [json |-> args]
JsonLoads(text) == text.json

(***************************************************************************)
(* Positional grammar (custom): the argument list is split at the commas   *)
(* outside quotes, each part is stripped, and a last part is kept only if  *)
(* it is not empty.                                                        *)
(***************************************************************************)
RECURSIVE SplitQuoted(_, _, _, _)
SplitQuoted(s, i, current, in_quotes) ==
    IF i > Len(s)
    THEN IF Strip(current) # <<>> THEN <<Strip(current)>> ELSE <<>>
    ELSE IF IsQuote(s[i])
         THEN SplitQuoted(s, i + 1, Append(current, s[i]), ~in_quotes)
         ELSE IF s[i] = COMMA /\ ~in_quotes
              THEN <<Strip(current)>> \o SplitQuoted(s, i + 1, <<>>, in_quotes)
              ELSE SplitQuoted(s, i + 1, Append(current, s[i]), in_quotes)

\* a conversion that turns what is no number into 0.0
CoercePositional_zero(arg_part, type) ==
    LET arg_value == StripQuotes(arg_part)
    IN  IF type = "float"
        THEN IF ParseFloat(arg_value).ok THEN ParseFloat(arg_value).v
             ELSE Float(0, 1)
        ELSE Str(Join(arg_value))

\* one positional argument converted by the annotation of its parameter
CoercePositional(arg_part, type) ==
    LET arg_value == StripQuotes(arg_part)
    IN  IF type = "float"
        THEN IF ParseFloat(arg_value).ok THEN ParseFloat(arg_value).v
             ELSE Str(Join(arg_value))
        ELSE Str(Join(arg_value))

RECURSIVE BindPositional_wrap(_, _, _)
\* a binding that gives the arguments beyond the signature to the last parameter
BindPositional_wrap(arg_parts, i, args) ==
    IF i > Len(arg_parts) THEN args
    ELSE LET p == IF i <= Len(param_names) THEN param_names[i]
                  ELSE param_names[Len(param_names)]
         IN  BindPositional_wrap(arg_parts, i + 1,
                 Put(args, p, CoercePositional(arg_parts[i], param_type[p])))

RECURSIVE BindPositional(_, _, _)
BindPositional(arg_parts, i, args) ==
    IF i > Len(arg_parts) THEN args
    ELSE IF i <= Len(param_names)
         THEN BindPositional(arg_parts, i + 1,
                  Put(args, param_names[i],
                      CoercePositional(arg_parts[i], param_type[param_names[i]])))
         ELSE BindPositional(arg_parts, i + 1, args)

PositionalArgs(tool_name, args_str) ==
    IF Strip(args_str) # <<>> /\ tool_name \in tool_functions
    THEN BindPositional(SplitQuoted(args_str, 1, <<>>, FALSE), 1, EmptyArgs)
    ELSE EmptyArgs

(***************************************************************************)
(* Keyed grammar (step2): args_str.split(','), and for every pair that     *)
(* holds a "=" the key and the value around the first "=".                 *)
(***************************************************************************)
RECURSIVE SplitComma(_, _, _)
SplitComma(s, i, current) ==
    IF i > Len(s) THEN <<Strip(current)>>
    ELSE IF s[i] = COMMA
         THEN <<Strip(current)>> \o SplitComma(s, i + 1, <<>>)
         ELSE SplitComma(s, i + 1, Append(current, s[i]))

Lower(s) == IF s = "TRUE" \/ s = "True" THEN "true"
            ELSE IF s = "FALSE" \/ s = "False" THEN "false" ELSE s

\* value.replace('.', '', 1).isdigit()
LooksNumeric(value) ==
    LET dots == {i \in 1..Len(value) : value[i] = DOT}
        rest == IF dots = {} THEN value
                ELSE LET p == CHOOSE i \in dots : \A j \in dots : i <= j
                     IN  SubSeq(value, 1, p - 1) \o SubSeq(value, p + 1, Len(value))
    IN  IsDigit(rest)

\* a keyed conversion that keeps every value as the string it was written as
CoerceKeyed_strings(value) == Str(Join(value))

\* the ValueError of float(value), which the keyed parser does not catch
ValueError == [k |-> "raise", exc |-> "ValueError"]

\* one keyed value converted by its looks alone
CoerceKeyed(value) ==
    IF Lower(Join(value)) = "true" THEN Bool(TRUE)
    ELSE IF Lower(Join(value)) = "false" THEN Bool(FALSE)
    ELSE IF LooksNumeric(value)
         THEN IF ParseFloat(value).ok THEN ParseFloat(value).v ELSE ValueError
    ELSE Str(Join(value))

RECURSIVE BindKeyed(_, _, _)
BindKeyed(arg_pairs, i, args) ==
    IF i > Len(arg_pairs) THEN args
    ELSE LET pair == arg_pairs[i]
             eqs == {p \in 1..Len(pair) : pair[p] = EQ}
             e == CHOOSE p \in eqs : \A q \in eqs : p <= q
         IN  IF eqs # {}
             THEN BindKeyed(arg_pairs, i + 1,
                      Put(args, Join(Strip(SubSeq(pair, 1, e - 1))),
                          CoerceKeyed(Strip(SubSeq(pair, e + 1, Len(pair))))))
             ELSE BindKeyed(arg_pairs, i + 1, args)

KeyedArgs(args_str) ==
    IF Strip(args_str) # <<>>
    THEN BindKeyed(SplitComma(args_str, 1, <<>>), 1, EmptyArgs)
    ELSE EmptyArgs

\* the conversion of some name=value pair of the list raises
KeyedRaises(args_str) ==
    /\ Strip(args_str) # <<>>
    /\ LET arg_pairs == SplitComma(args_str, 1, <<>>)
       IN  \E i \in 1..Len(arg_pairs) :
               LET pair == arg_pairs[i]
                   eqs == {p \in 1..Len(pair) : pair[p] = EQ}
                   e == CHOOSE p \in eqs : \A q \in eqs : p <= q
               IN  /\ eqs # {}
                   /\ CoerceKeyed(Strip(SubSeq(pair, e + 1, Len(pair)))) = ValueError

(***************************************************************************)
(* _parse_tool_calls: one call per match, numbered call_0, call_1, ...     *)
(***************************************************************************)
\* ids numbered from one
CallId_from_one(idx) == "call_" \o ToString(idx + 1)

\* f"call_{len(tool_calls)}"
CallId(idx) == "call_" \o ToString(idx)

ToolCall(variant, mt, idx) ==
    [id |-> CallId(idx),
     name |-> mt.name,
     arguments |-> JsonDumps(IF variant = "custom"
                             THEN PositionalArgs(mt.name, mt.args_str)
                             ELSE KeyedArgs(mt.args_str))]

\* _parse_tool_calls does not return: the keyed parser raised ValueError
ParseRaises(variant, content) ==
    /\ variant = "step2"
    /\ LET matches == FindIter(content, 1)
       IN  \E i \in 1..Len(matches) : KeyedRaises(matches[i].args_str)

\* the calls _parse_tool_calls returns when it does not raise
_parse_tool_calls(variant, content) ==
    LET matches == FindIter(content, 1)
    IN  [i \in 1..Len(matches) |-> ToolCall(variant, matches[i], i - 1)]

(***************************************************************************)
(* calculator(a, b, operator).  Binding a dict whose keys are not exactly  *)
(* the three parameters raises TypeError before the body (and its try) is  *)
(* entered; every exception of the arithmetic is caught inside.  A result  *)
(* is a text whose tokens are the pieces the code puts together.           *)
(***************************************************************************)
Binds(args) == DOMAIN args = {"a", "b", "operator"}

IsNum(v) == v.k \in {"float", "bool"}
Numer(v) == IF v.k = "float" THEN v.n ELSE IF v.b THEN 1 ELSE 0
Denom(v) == IF v.k = "float" THEN v.d ELSE 1
TypeName(v) == v.k

\* str(x) of a float n/d: the shortest decimal; a quotient whose expansion
\* does not end within two places is spelled as the fraction it is.
\* (Negative zero is not represented: the literals of Replies are unsigned.)
FloatStr(n, d) ==
    IF 100 % d = 0
    THEN LET h == Abs(n) * (100 \div d)
             f == h % 100
         IN  (IF n < 0 THEN "-" ELSE "") \o ToString(h \div 100) \o "." \o
             (IF f % 10 = 0 THEN ToString(f \div 10)
              ELSE (IF f < 10 THEN "0" ELSE "") \o ToString(f))
    ELSE ToString(n) \o "/" \o ToString(d)

PyStr(v) ==
    IF v.k = "float" THEN FloatStr(v.n, v.d)
    ELSE IF v.k = "int" THEN ToString(v.n)
    ELSE v.s

\* how a Python call ends: it returns a text, or an exception leaves it
RetStr(text) == [k |-> "str", text |-> text]
Raised(exc) == [k |-> "raise", exc |-> exc]

\* str(x) as a text of one token
StrOf(v) == RetStr(<<PyStr(v)>>)

\* the message of the TypeError of a op b
Unsupported(op, a, b) ==
    Raised("unsupported operand type(s) for " \o op \o ": '" \o TypeName(a)
               \o "' and '" \o TypeName(b) \o "'")

\* a op b of two numbers: an int when both are bools, else a float
NumResult(a, b, n, d) ==
    IF a.k = "bool" /\ b.k = "bool" THEN IntV(n) ELSE Float(n, d)

\* a division that is left to raise ZeroDivisionError
DivisionByZero_raised == Raised("float division by zero")

\* if b == 0: return 'Error: Division by zero'
DivisionByZero == RetStr(<<"Error: ", "Division by zero">>)

\* the try block of calculator: the returned text, or the exception raised in it
calculator_try(args) ==
    LET a == args["a"]
        b == args["b"]
        operator == args["operator"]
        num == IsNum(a) /\ IsNum(b)
    IN  IF operator = Str("+")
        THEN IF num
             THEN StrOf(NumResult(a, b, Numer(a) * Denom(b) + Numer(b) * Denom(a),
                                  Denom(a) * Denom(b)))
             ELSE IF a.k = "str" /\ b.k = "str" THEN RetStr(<<a.s \o b.s>>)
             ELSE IF a.k = "str"
                  THEN Raised("can only concatenate str (not \"" \o TypeName(b)
                                  \o "\") to str")
                  ELSE Unsupported("+", a, b)
        ELSE IF operator = Str("-")
        THEN IF num
             THEN StrOf(NumResult(a, b, Numer(a) * Denom(b) - Numer(b) * Denom(a),
                                  Denom(a) * Denom(b)))
             ELSE Unsupported("-", a, b)
        ELSE IF operator = Str("*")
        THEN IF num
             THEN StrOf(NumResult(a, b, Numer(a) * Numer(b), Denom(a) * Denom(b)))
             ELSE IF a.k = "str" /\ b.k = "bool"
                  THEN RetStr(<<IF b.b THEN a.s ELSE "">>)
             ELSE IF a.k = "bool" /\ b.k = "str"
                  THEN RetStr(<<IF a.b THEN b.s ELSE "">>)
             ELSE Raised("can't multiply sequence by non-int of type '"
                             \o (IF a.k = "str" THEN TypeName(b) ELSE TypeName(a))
                             \o "'")
        ELSE IF operator = Str("/")
        THEN IF IsNum(b) /\ Numer(b) = 0
             THEN DivisionByZero
             ELSE IF num
                  THEN LET n == Numer(a) * Denom(b)
                           d == Denom(a) * Numer(b)
                       IN  StrOf(IF d < 0 THEN Float(-n, -d) ELSE Float(n, d))
                  ELSE Unsupported("/", a, b)
        ELSE RetStr(<<"Error: ", "Invalid operator. Please use +, -, *, or /">>)

\* a calculator without the except clause
calculator_uncaught(args) == calculator_try(args)

\* except Exception as e: return f'Error: {str(e)}'
calculator(args) ==
    LET r == calculator_try(args)
    IN  IF r.k = "raise" THEN RetStr(<<"Error: ", r.exc>>) ELSE r

(***************************************************************************)
(* add_message: name and tool_call_id are stored only when truthy.         *)
(***************************************************************************)
None == "<None>"
Truthy(x) == x # None /\ x # ""

\* a message that stores both fields whatever their values
Message_unconditional(role, content, name, tool_call_id) ==
    [role |-> role, content |-> content, name |-> name,
     tool_call_id |-> tool_call_id]

Message(role, content, name, tool_call_id) ==
    IF Truthy(name) /\ Truthy(tool_call_id)
    THEN [role |-> role, content |-> content, name |-> name,
          tool_call_id |-> tool_call_id]
    ELSE IF Truthy(name)
    THEN [role |-> role, content |-> content, name |-> name]
    ELSE IF Truthy(tool_call_id)
    THEN [role |-> role, content |-> content, tool_call_id |-> tool_call_id]
    ELSE [role |-> role, content |-> content]

\* a history kept as a window of the last three messages
add_message_window(msgs, role, content, name, tool_call_id) ==
    IF Len(msgs) >= 3
    THEN Append(Tail(msgs), Message(role, content, name, tool_call_id))
    ELSE Append(msgs, Message(role, content, name, tool_call_id))

add_message(msgs, role, content, name, tool_call_id) ==
    Append(msgs, Message(role, content, name, tool_call_id))

(***************************************************************************)
(* process_tool_calls (custom, step2): the results of the registered       *)
(* calls in order; a call that does not bind raises TypeError out of the   *)
(* whole function, so that no result is returned.                          *)
(***************************************************************************)
Registered(tool_call) == tool_call.name \in tool_functions
Raises(tool_call) == Registered(tool_call) /\ ~Binds(JsonLoads(tool_call.arguments))

ToolResult(tool_call) ==
    [tool_call_id |-> tool_call.id,
     name |-> tool_call.name,
     content |-> calculator(JsonLoads(tool_call.arguments)).text]

RECURSIVE process_tool_calls_stop(_)
\* a loop that ends at the first call of an unknown tool
process_tool_calls_stop(tool_calls) ==
    IF tool_calls = <<>> THEN <<>>
    ELSE IF Registered(Head(tool_calls))
         THEN <<ToolResult(Head(tool_calls))>>
                  \o process_tool_calls_stop(Tail(tool_calls))
         ELSE <<>>

RECURSIVE process_tool_calls(_)
process_tool_calls(tool_calls) ==
    IF tool_calls = <<>> THEN <<>>
    ELSE IF Registered(Head(tool_calls))
         THEN <<ToolResult(Head(tool_calls))>> \o process_tool_calls(Tail(tool_calls))
         ELSE process_tool_calls(Tail(tool_calls))

ProcessRaises(tool_calls) == \E i \in 1..Len(tool_calls) : Raises(tool_calls[i])

RECURSIVE AddToolResults(_, _)
\* the loop of handle_message that appends every tool result
AddToolResults(msgs, tool_results) ==
    IF tool_results = <<>> THEN msgs
    ELSE AddToolResults(
             add_message(msgs, "tool", Head(tool_results).content,
                         Head(tool_results).name, Head(tool_results).tool_call_id),
             Tail(tool_results))

(***************************************************************************)
(* Bounds and inputs                                                       *)
(***************************************************************************)
\* calls of handle_message in one session
MaxCalls == 2
\* largest configured max_messages
MaxLimit == 1
\* max_messages = None
NoLimit == -1

Variants == {"custom", "step2", "ollama"}

\* user utterances: without and with the termination marker
UserInputs == {<<"hi">>, <<"hi", SP, MARKER>>}

\* calculator(5, 2, '+') in the positional grammar
PosCall(x, y, op) ==
    <<TC, SP, "calculator", LP, x, COMMA, SP, y, COMMA, SP, QS, op, QS, RP, NL, TE>>
\* calculator(a=5, b=2, operator=+) in the keyed grammar
KeyCall(x, y, op) ==
    <<TC, SP, "calculator", LP, "a", EQ, x, COMMA, SP, "b", EQ, y, COMMA, SP,
      "operator", EQ, op, RP, SP, TE>>
FooCall == <<TC, SP, "foo", LP, "5", RP, SP, TE>>

TextReplies ==
    { <<"hi">>,
      \* directive-looking text that names no tool
      <<"hi", SP, TC, SP, "hi", SP, TE>>,
      FooCall,
      <<"hi", SP>> \o PosCall("5", "0", "/") \o <<SP>> \o FooCall \o <<SP>>
          \o PosCall("2", "5", "*"),
      <<"hi", SP>> \o KeyCall("5", "0", "/") \o <<SP>> \o FooCall \o <<SP>>
          \o KeyCall("2", "5", "*"),
      \* too few arguments
      PosCall("5", "2", "+") \o <<SP, TC, "calculator", LP, "5", RP, TE>> }

\* a plain answer, and one that looks like a directive
FinalTextReplies == {<<"done">>, PosCall("5", "2", "+")}

\* a provider-native tool call (ollama); id is None when the object has none
NativeCall(id, name, arguments) == [id |-> id, name |-> name, arguments |-> arguments]
CalcArgs(x, y, op) == [a |-> Float(x, 1), b |-> Float(y, 1), operator |-> Str(op)]

NativeReplies ==
    { [content |-> <<"hi">>, tool_calls |-> <<>>],
      [content |-> <<>>,
       tool_calls |-> <<NativeCall(None, "calculator", CalcArgs(5, 0, "/")),
                        NativeCall("id1", "foo", EmptyArgs),
                        NativeCall("id2", "calculator", CalcArgs(2, 5, "*"))>>],
      [content |-> <<>>, tool_calls |-> <<NativeCall("id1", "foo", EmptyArgs)>>],
      [content |-> <<"hi">>,
       tool_calls |-> <<NativeCall("id1", "calculator", CalcArgs(5, 2, "+")),
                        NativeCall("id2", "calculator", [a |-> Float(5, 1)])>>] }

\* what the provider may answer to completion request #1 and #2
FirstReplies(v) ==
    IF v = "ollama" THEN NativeReplies
    ELSE {[content |-> t, tool_calls |-> <<>>] : t \in TextReplies}
AllFirstReplies == UNION {FirstReplies(v) : v \in Variants}
FinalReplies == {[content |-> t, tool_calls |-> <<>>] : t \in FinalTextReplies}

(***************************************************************************)
(* _create_system_message: the base instruction, a blank line, and the     *)
(* tool catalogue in the insertion order of tool_descriptions followed by  *)
(* the TOOL_CALL instructions.  The ollama agent stores the base alone.    *)
(***************************************************************************)
BaseMessage == <<"You are a helpful assistant that can perform calculations when requested.">>

tool_descriptions ==
    <<[name |-> "calculator",
       description |-> "Performs basic arithmetic operations on two numbers.",
       parameters |-> <<<<"a", "The first number (float)">>,
                        <<"b", "The second number (float)">>,
                        <<"operator", "The arithmetic operator (+, -, *, /)">>>>,
       example |-> "calculator(5, 3, '+') returns '8'"]>>

RECURSIVE ParamLines(_)
ParamLines(ps) ==
    IF ps = <<>> THEN <<>>
    ELSE <<"    - " \o Head(ps)[1] \o ": " \o Head(ps)[2], NL>> \o ParamLines(Tail(ps))

RECURSIVE ToolLines(_)
ToolLines(ts) ==
    IF ts = <<>> THEN <<>>
    ELSE <<"- " \o Head(ts).name \o ": " \o Head(ts).description, NL,
           "  Parameters:", NL>>
         \o ParamLines(Head(ts).parameters)
         \o <<"  Example: " \o Head(ts).example, NL, NL>>
         \o ToolLines(Tail(ts))

\* a system message that opens with the catalogue and ends with the base
_create_system_message_catalogue_first(base_message) ==
    <<"You have access to the following tools:", NL, NL>>
    \o ToolLines(tool_descriptions)
    \o <<"To use a tool, format your response as follows:", NL,
         "TOOL_CALL: <tool_name>(<param1>, <param2>, ...)", NL,
         "TOOL_CALL_END", NL, NL,
         "After the tool is called, you will receive the result and should continue your response.",
         NL, NL, NL>>
    \o base_message

_create_system_message(base_message) ==
    base_message \o <<NL, NL>>
    \o <<"You have access to the following tools:", NL, NL>>
    \o ToolLines(tool_descriptions)
    \o <<"To use a tool, format your response as follows:", NL,
         "TOOL_CALL: <tool_name>(<param1>, <param2>, ...)", NL,
         "TOOL_CALL_END", NL, NL,
         "After the tool is called, you will receive the result and should continue your response.",
         NL>>

SystemMessage(v) ==
    IF v = "ollama" THEN BaseMessage ELSE _create_system_message(BaseMessage)

(***************************************************************************)
(* State of one session (one ToolUseAgent) and of its caller.              *)
(***************************************************************************)
VARIABLES
    variant,        \* which ToolUseAgent class the session is an instance of
    max_messages,   \* self.max_messages (NoLimit stands for None)
    messages,       \* self.messages, the conversation history
    message_count,  \* self.message_count, the turn count
    pc,             \* where the running call of handle_message stands
    tool_calls,     \* the tool calls of the first reply of the running turn
    calls,          \* calls of handle_message made so far
    user_input,     \* the argument of the last call made
    turn_start,     \* the length of the history when the last call was made
    requests,       \* completion requests issued by the last call made
    sent,           \* the messages passed to the last completion request
    reply,          \* what the provider answered last
    ret,            \* how the last finished call ended
    marker_seen,    \* some call was rejected for the termination marker
    probe           \* a direct call of one function: its input and its result

vars == <<variant, max_messages, messages, message_count, pc, tool_calls, calls,
          user_input, turn_start, requests, sent, reply, ret, marker_seen, probe>>

RetNone == [k |-> "None"]
NoReply == [content |-> <<>>, tool_calls |-> <<>>]

\* no function is called on its own in a session
NoProbe == [op |-> "none"]

\* a constructor that does not append the system message
InitialMessages_empty(v) == <<>>

\* the history a new session starts with: the system message alone
InitialMessages(v) == add_message(<<>>, "system", SystemMessage(v), None, None)

\* ToolUseAgent.__init__
Init ==
    /\ variant \in Variants
    /\ max_messages \in IF variant = "custom" THEN {NoLimit}
                        ELSE {NoLimit} \cup 0..MaxLimit
    /\ messages = InitialMessages(variant)
    /\ message_count = 0
    /\ pc = "idle"
    /\ tool_calls = <<>>
    /\ calls = 0
    /\ user_input = <<>>
    /\ turn_start = 0
    /\ requests = 0
    /\ sent = <<>>
    /\ reply = NoReply
    /\ ret = [k |-> "init"]
    /\ marker_seen = FALSE
    /\ probe = NoProbe

\* "TERMINATE" in user_input
HasMarker(text) == \E i \in 1..Len(text) : text[i] = MARKER

\* self.max_messages and self.message_count >= self.max_messages
LimitReached(max, count) == max # NoLimit /\ max # 0 /\ count >= max

\* early returns that check the limit alone
Rejects_limit_only(v, text, max, count) ==
    /\ v \in {"step2", "ollama"}
    /\ LimitReached(max, count)

\* the two early returns of handle_message; the custom agent has neither
Rejects(v, text, max, count) ==
    /\ v \in {"step2", "ollama"}
    /\ (HasMarker(text) \/ LimitReached(max, count))

\* a count that advances once per completion request of a full turn
NextCount_twice(count) == count + 2

\* self.message_count += 1
NextCount(count) == count + 1

\* a rejection that counts the turn it turns away
Reject_counted(u) ==
    /\ pc = "idle"
    /\ calls < MaxCalls
    /\ Rejects(variant, u, max_messages, message_count)
    /\ calls' = calls + 1
    /\ user_input' = u
    /\ turn_start' = Len(messages)
    /\ requests' = 0
    /\ ret' = RetNone
    /\ marker_seen' = (marker_seen \/ HasMarker(u))
    /\ message_count' = NextCount(message_count)
    /\ UNCHANGED <<variant, max_messages, messages, pc, tool_calls,
                   sent, reply, probe>>

\* handle_message returns None before it touches the session
Reject(u) ==
    /\ pc = "idle"
    /\ calls < MaxCalls
    /\ Rejects(variant, u, max_messages, message_count)
    /\ calls' = calls + 1
    /\ user_input' = u
    /\ turn_start' = Len(messages)
    /\ requests' = 0
    /\ ret' = RetNone
    /\ marker_seen' = (marker_seen \/ HasMarker(u))
    /\ UNCHANGED <<variant, max_messages, messages, message_count, pc, tool_calls,
                   sent, reply, probe>>

\* a request that carries the newest message alone
RequestMessages_last(msgs) == <<msgs[Len(msgs)]>>

\* messages=self.messages: a completion request carries the whole history
RequestMessages(msgs) == msgs

\* the turn is counted, the user message appended, and request #1 issued
Accept(u) ==
    /\ pc = "idle"
    /\ calls < MaxCalls
    /\ ~Rejects(variant, u, max_messages, message_count)
    /\ calls' = calls + 1
    /\ user_input' = u
    /\ turn_start' = Len(messages)
    /\ message_count' = NextCount(message_count)
    /\ messages' = add_message(messages, "user", u, None, None)
    /\ requests' = 1
    /\ sent' = RequestMessages(messages')
    /\ tool_calls' = <<>>
    /\ pc' = "await1"
    /\ UNCHANGED <<variant, max_messages, reply, ret, marker_seen, probe>>

\* an assistant message that never records the calls of its reply
AssistantMessage_plain(v, content, calls_) ==
    [role |-> "assistant", content |-> content]

\* the assistant message of the first reply
AssistantMessage(v, content, calls_) ==
    IF v # "ollama" /\ calls_ # <<>>
    THEN [role |-> "assistant", content |-> content, tool_calls |-> calls_]
    ELSE [role |-> "assistant", content |-> content]

\* the tool calls of the first reply: parsed from its text, or provider-native
TurnCalls(v, r) ==
    IF v = "ollama" THEN r.tool_calls ELSE _parse_tool_calls(v, r.content)

\* an assistant message that keeps the reply as it came
CleanContent_raw(v, r) == r.content

CleanContent(v, r) ==
    IF v = "ollama" THEN r.content ELSE _remove_tool_calls_from_content(r.content)

RECURSIVE OllamaLoop(_, _)
\* the loop of the ollama agent: every result is appended as soon as its
\* call returns; a call that does not bind raises TypeError out of the loop
OllamaLoop(msgs, calls_) ==
    IF calls_ = <<>> THEN [msgs |-> msgs, raised |-> FALSE]
    ELSE LET c == Head(calls_)
         IN  IF c.name \in tool_functions
             THEN IF Binds(c.arguments)
                  THEN OllamaLoop(add_message(msgs, "tool", calculator(c.arguments).text,
                                              c.name, c.id),
                                  Tail(calls_))
                  ELSE [msgs |-> msgs, raised |-> TRUE]
             ELSE OllamaLoop(msgs, Tail(calls_))

\* the history and the fate of the turn after the tool calls were processed
AfterTools(v, msgs, calls_) ==
    IF v = "ollama" THEN OllamaLoop(msgs, calls_)
    ELSE IF ProcessRaises(calls_) THEN [msgs |-> msgs, raised |-> TRUE]
    ELSE [msgs |-> AddToolResults(msgs, process_tool_calls(calls_)), raised |-> FALSE]

\* if tool_calls: a second round follows
NeedsSecondRound(calls_) == calls_ # <<>>

\* reply #1 arrives: the assistant message is appended; without tool calls the
\* turn ends, otherwise the tools run and request #2 is issued
FirstReply(r) ==
    /\ pc = "await1"
    /\ r \in FirstReplies(variant)
    /\ reply' = r
    /\ IF ParseRaises(variant, r.content)
       THEN /\ ret' = ValueError
            /\ pc' = "idle"
            /\ UNCHANGED <<messages, tool_calls, requests, sent>>
       ELSE
       LET calls_ == TurnCalls(variant, r)
           clean == CleanContent(variant, r)
           withAssistant == Append(messages, AssistantMessage(variant, clean, calls_))
       IN  /\ tool_calls' = calls_
           /\ IF ~NeedsSecondRound(calls_)
              THEN /\ messages' = withAssistant
                   /\ ret' = RetStr(clean)
                   /\ pc' = "idle"
                   /\ UNCHANGED <<requests, sent>>
              ELSE LET after == AfterTools(variant, withAssistant, calls_)
                   IN  /\ messages' = after.msgs
                       /\ IF after.raised
                          THEN /\ ret' = Raised("TypeError")
                               /\ pc' = "idle"
                               /\ UNCHANGED <<requests, sent>>
                          ELSE /\ requests' = requests + 1
                               /\ sent' = RequestMessages(after.msgs)
                               /\ pc' = "await2"
                               /\ UNCHANGED ret
    /\ UNCHANGED <<variant, max_messages, message_count, calls, user_input,
                   turn_start, marker_seen, probe>>

\* a final answer that is cleaned like the first reply
FinalContent_stripped(r) == _remove_tool_calls_from_content(r.content)

\* final_content: the content of reply #2 as it is
FinalContent(r) == r.content

\* reply #2 arrives: its content is appended and returned
SecondReply(r) ==
    /\ pc = "await2"
    /\ reply' = r
    /\ messages' = add_message(messages, "assistant", FinalContent(r), None, None)
    /\ ret' = RetStr(FinalContent(r))
    /\ pc' = "idle"
    /\ UNCHANGED <<variant, max_messages, message_count, tool_calls, calls,
                   user_input, turn_start, requests, sent, marker_seen, probe>>

\* a failure that is caught: the turn is taken back and None returned
ProviderFailure_rollback ==
    /\ pc \in {"await1", "await2"}
    /\ ret' = RetNone
    /\ pc' = "idle"
    /\ messages' = SubSeq(messages, 1, turn_start)
    /\ message_count' = message_count - 1
    /\ UNCHANGED <<variant, max_messages, tool_calls, calls, user_input,
                   turn_start, requests, sent, reply, marker_seen, probe>>

\* the awaited completion request fails: the exception leaves handle_message
ProviderFailure ==
    /\ pc \in {"await1", "await2"}
    /\ ret' = Raised("ProviderError")
    /\ pc' = "idle"
    /\ UNCHANGED <<variant, max_messages, messages, message_count, tool_calls,
                   calls, user_input, turn_start, requests, sent, reply,
                   marker_seen, probe>>

Next ==
    \/ \E u \in UserInputs : Reject(u)
    \/ \E u \in UserInputs : Accept(u)
    \/ \E r \in AllFirstReplies : FirstReply(r)
    \/ \E r \in FinalReplies : SecondReply(r)
    \/ ProviderFailure

Spec == Init /\ [][Next]_vars

(***************************************************************************)
(* The calculator called on its own: every combination of two operands and *)
(* an operator, bound to the three parameters.                             *)
(***************************************************************************)
\* no session runs while a function is called on its own
NoSession ==
    /\ variant \in {"custom", "step2"}
    /\ max_messages = NoLimit
    /\ messages = <<>>
    /\ message_count = 0
    /\ pc = "idle"
    /\ tool_calls = <<>>
    /\ calls = 0
    /\ user_input = <<>>
    /\ turn_start = 0
    /\ requests = 0
    /\ sent = <<>>
    /\ reply = NoReply
    /\ ret = [k |-> "init"]
    /\ marker_seen = FALSE

session_vars == <<variant, max_messages, messages, message_count, pc, tool_calls,
                  calls, user_input, turn_start, requests, sent, reply, ret,
                  marker_seen>>

\* operands: floats (zero, whole, fractional, negative), strings left by a
\* failed conversion (the empty one included), and the bools of the keyed grammar
Operands ==
    {Float(0, 1), Float(2, 1), Float(5, 2), Float(-5, 1),
     Str("x"), Str(""), Str("a=5"), Bool(TRUE), Bool(FALSE)}
\* operators: the four supported, unsupported strings, and a value that is no string
Operators ==
    {Str("+"), Str("-"), Str("*"), Str("/"), Str("%"), Str(""), Float(2, 1)}

CalcInit ==
    /\ NoSession
    /\ \E a \in Operands, b \in Operands, operator \in Operators :
           probe = [op |-> "args",
                    args |-> [a |-> a, b |-> b, operator |-> operator]]

\* calculator(**args)
CallCalculator ==
    /\ probe.op = "args"
    /\ probe' = [op |-> "result", args |-> probe.args,
                 result |-> calculator(probe.args)]
    /\ UNCHANGED session_vars

CalcNext == CallCalculator

CalcSpec == CalcInit /\ [][CalcNext]_vars

(***************************************************************************)
(* The two text functions called on their own, as handle_message calls     *)
(* them on the content of reply #1, on every text put together from a few  *)
(* pieces: plain text, whitespace, delimiters whole and in halves, and     *)
(* complete directives.                                                    *)
(***************************************************************************)
\* pieces a text is put together from
MaxPieces == 4

Pieces ==
    { <<SP>>, <<"hi">>, <<TC>>, <<TE>>, <<TC_HEAD>>, <<TC_TAIL>>,
      <<"foo", LP, RP>>, FooCall, PosCall("5", "2", "+") }

RECURSIVE PiecesUpTo(_)
PiecesUpTo(n) ==
    IF n = 0 THEN {<<>>}
    ELSE LET shorter == PiecesUpTo(n - 1)
         IN  shorter \cup {t \o p : t \in shorter, p \in Pieces}

Texts == {Rejoin(t) : t \in PiecesUpTo(MaxPieces)}

TextInit ==
    /\ NoSession
    /\ \E content \in Texts : probe = [op |-> "content", content |-> content]

\* tool_calls = self._parse_tool_calls(content)
\* clean_content = self._remove_tool_calls_from_content(content)
ParseAndClean ==
    /\ probe.op = "content"
    /\ probe' = [op |-> "cleaned", content |-> probe.content,
                 tool_calls |-> _parse_tool_calls(variant, probe.content),
                 clean_content |-> _remove_tool_calls_from_content(probe.content)]
    /\ UNCHANGED session_vars

\* the clean content is cleaned once more
CleanAgain ==
    /\ probe.op = "cleaned"
    /\ probe' = [op |-> "recleaned", content |-> probe.content,
                 tool_calls |-> probe.tool_calls,
                 clean_content |-> probe.clean_content,
                 again |-> _remove_tool_calls_from_content(probe.clean_content)]
    /\ UNCHANGED session_vars

TextNext == ParseAndClean \/ CleanAgain

TextSpec == TextInit /\ [][TextNext]_vars

(***************************************************************************)
(* The two parsers called on one calculator directive whose argument list  *)
(* is put together from a few arguments: first the positional parser       *)
(* (custom) on calculator(X, Y, ...), then the keyed parser (step2) on     *)
(* calculator(a=X, b=Y, operator=..., c=...).                              *)
(***************************************************************************)
\* arguments of one directive (one more than calculator has parameters)
MaxArgs == 4

\* the ways an argument is written: numbers (whole, negative, fractional),
\* operators bare and quoted, a quoted comma, two layers of quotes, quotes
\* that do not match, booleans, and a power written with a superscript
ArgForms ==
    { <<"5">>, <<"-", "5">>, <<"2", DOT, "5">>,
      <<"+">>, <<"/">>, <<QS, "+", QS>>,
      <<QD, "a", COMMA, "b", QD>>,
      <<QD, QS, "+", QS, QD>>,
      <<QD, "x", QS>>,
      <<"True">>, <<"FALSE">>,
      <<"5", SUP2>> }

\* the ways an argument beyond the parameters of calculator is written
ExtraForms == { <<"2", DOT, "5">>, <<"FALSE">> }
FormsAt(i) == IF i <= Len(param_names) THEN ArgForms ELSE ExtraForms

RECURSIVE ArgListsUpTo(_)
\* the argument lists of up to n arguments
ArgListsUpTo(n) ==
    IF n = 0 THEN {<<>>}
    ELSE LET shorter == ArgListsUpTo(n - 1)
         IN  shorter \cup UNION {{Append(l, f) : f \in FormsAt(Len(l) + 1)} :
                                     l \in shorter}

\* the keys the arguments are given in the keyed grammar; c and d are not
\* parameters of calculator
KeyedNames == <<"a", "b", "operator", "c", "d">>

RECURSIVE JoinArgs(_, _, _)
\* the argument list: the parts from the i-th on, separated by ", ", each
\* written as key=part when keyed
JoinArgs(parts, i, keyed) ==
    IF i > Len(parts) THEN <<>>
    ELSE (IF i > 1 THEN <<COMMA, SP>> ELSE <<>>)
         \o (IF keyed THEN <<KeyedNames[i], EQ>> ELSE <<>>)
         \o parts[i]
         \o JoinArgs(parts, i + 1, keyed)

\* TOOL_CALL: calculator(<arglist>) TOOL_CALL_END
Directive(tool_name, arglist) ==
    <<TC, SP, tool_name, LP>> \o arglist \o <<RP, SP, TE>>

ArgInit ==
    /\ NoSession
    /\ variant = "custom"
    /\ \E parts \in ArgListsUpTo(MaxArgs) :
           probe = [op |-> "arglist", parts |-> parts]

\* _parse_tool_calls of the custom agent on the positional directive
ParsePositional ==
    /\ probe.op = "arglist"
    /\ probe' = [op |-> "positional", parts |-> probe.parts,
                 positional |-> _parse_tool_calls("custom",
                     Directive("calculator", JoinArgs(probe.parts, 1, FALSE)))]
    /\ UNCHANGED session_vars

\* _parse_tool_calls of the step2 agent on the keyed directive: the calls it
\* returns, or the exception that leaves it
ParseKeyed ==
    /\ probe.op = "positional"
    /\ LET content == Directive("calculator", JoinArgs(probe.parts, 1, TRUE))
       IN  probe' = [op |-> "both", parts |-> probe.parts,
                     positional |-> probe.positional,
                     keyed |-> IF ParseRaises("step2", content) THEN <<>>
                               ELSE _parse_tool_calls("step2", content),
                     raised |-> IF ParseRaises("step2", content)
                                THEN ValueError.exc ELSE None]
    /\ UNCHANGED session_vars

ArgNext == ParsePositional \/ ParseKeyed

ArgSpec == ArgInit /\ [][ArgNext]_vars

(***************************************************************************)
(* Two sessions: two ToolUseAgent objects of the custom agent whose turns  *)
(* are interleaved step by step.  The session variables hold the object    *)
(* that takes the next step; the attributes of the other object are kept   *)
(* in probe.peer until the caller turns to it.                             *)
(***************************************************************************)
\* calls of handle_message on the two sessions together
MaxPairCalls == 2

\* the base instructions a session is built from: the default of __init__
\* and the one main() of the step2 agent passes
BaseMessages ==
    { BaseMessage,
      <<"You are a helpful assistant that can perform calculations when requested. If you see 'TERMINATE', stop the conversation.">> }

\* __init__ with a base instruction: the system message opens the history
InitialMessagesFrom(base) ==
    add_message(<<>>, "system", _create_system_message(base), None, None)

\* the attributes of the object at hand, and the position of its caller
Session ==
    [variant |-> variant, max_messages |-> max_messages, messages |-> messages,
     message_count |-> message_count, pc |-> pc, tool_calls |-> tool_calls,
     calls |-> calls, user_input |-> user_input, turn_start |-> turn_start,
     requests |-> requests, sent |-> sent, reply |-> reply, ret |-> ret,
     marker_seen |-> marker_seen]

\* what the user of each session types: the two never type the same
PairInput(who) == IF who = 1 THEN <<"hi">> ELSE <<"hi", SP, MARKER>>

\* what the provider answers to request #1 of either session
PairFirstReplies ==
    {[content |-> t, tool_calls |-> <<>>] :
        t \in { <<"hi">>, FooCall,
                <<"hi", SP>> \o PosCall("5", "0", "/") \o <<SP>> \o FooCall \o <<SP>>
                    \o PosCall("2", "5", "*") }}

\* a history that is one list shared by every object of the class
OwnMessages_shared(own, other) == other

\* self.messages = [] in __init__: the history an object works on is its own
\* list, whatever another object holds
OwnMessages(own, other) == own

PairInit ==
  \E base1, base2 \in BaseMessages :
    /\ variant = "custom"
    /\ max_messages = NoLimit
    /\ messages = InitialMessagesFrom(base1)
    /\ message_count = 0
    /\ pc = "idle"
    /\ tool_calls = <<>>
    /\ calls = 0
    /\ user_input = <<>>
    /\ turn_start = 0
    /\ requests = 0
    /\ sent = <<>>
    /\ reply = NoReply
    /\ ret = [k |-> "init"]
    /\ marker_seen = FALSE
    /\ probe = [op |-> "pair", active |-> 1, base |-> <<base1, base2>>,
                peer |-> [variant |-> "custom", max_messages |-> NoLimit,
                          messages |-> InitialMessagesFrom(base2),
                          message_count |-> 0, pc |-> "idle", tool_calls |-> <<>>,
                          calls |-> 0, user_input |-> <<>>, turn_start |-> 0,
                          requests |-> 0, sent |-> <<>>, reply |-> NoReply,
                          ret |-> [k |-> "init"], marker_seen |-> FALSE]]

\* handle_message is entered on the session at hand
PairAccept ==
    /\ calls + probe.peer.calls < MaxPairCalls
    /\ Accept(PairInput(probe.active))

\* the next step is taken on the other object
Switch ==
    /\ probe.op = "pair"
    /\ probe' = [op |-> "pair", active |-> 3 - probe.active, base |-> probe.base,
                 peer |-> Session]
    /\ messages' = OwnMessages(probe.peer.messages, messages)
    /\ variant' = probe.peer.variant
    /\ max_messages' = probe.peer.max_messages
    /\ message_count' = probe.peer.message_count
    /\ pc' = probe.peer.pc
    /\ tool_calls' = probe.peer.tool_calls
    /\ calls' = probe.peer.calls
    /\ user_input' = probe.peer.user_input
    /\ turn_start' = probe.peer.turn_start
    /\ requests' = probe.peer.requests
    /\ sent' = probe.peer.sent
    /\ reply' = probe.peer.reply
    /\ ret' = probe.peer.ret
    /\ marker_seen' = probe.peer.marker_seen

PairNext ==
    \/ PairAccept
    \/ \E r \in PairFirstReplies : FirstReply(r)
    \/ \E r \in FinalReplies : SecondReply(r)
    \/ ProviderFailure
    \/ Switch

PairSpec == PairInit /\ [][PairNext]_vars

(***************************************************************************)
(* One session, two callers: handle_message is run twice on the same       *)
(* object with no lock around the turn, so that the callers take turns at  *)
(* every completion request.  The history and the counter are the          *)
(* object's; the position in handle_message and its local variables are    *)
(* each caller's own, kept in probe.other while the other caller runs.     *)
(***************************************************************************)
\* the frame of the running call of handle_message
Frame ==
    [pc |-> pc, tool_calls |-> tool_calls, user_input |-> user_input,
     turn_start |-> turn_start, requests |-> requests, sent |-> sent,
     reply |-> reply, ret |-> ret]

SharedInit ==
    /\ variant = "custom"
    /\ max_messages = NoLimit
    /\ messages = InitialMessages(variant)
    /\ message_count = 0
    /\ pc = "idle"
    /\ tool_calls = <<>>
    /\ calls = 0
    /\ user_input = <<>>
    /\ turn_start = 0
    /\ requests = 0
    /\ sent = <<>>
    /\ reply = NoReply
    /\ ret = [k |-> "init"]
    /\ marker_seen = FALSE
    /\ probe = [op |-> "shared", active |-> 1,
                other |-> [pc |-> "idle", tool_calls |-> <<>>, user_input |-> <<>>,
                           turn_start |-> 0, requests |-> 0, sent |-> <<>>,
                           reply |-> NoReply, ret |-> [k |-> "init"]]]

\* the running caller enters handle_message
SharedAccept ==
    /\ probe.op = "shared"
    /\ Accept(PairInput(probe.active))

\* the other caller runs: the frames change places, the object stays
Yield ==
    /\ probe.op = "shared"
    /\ probe' = [op |-> "shared", active |-> 3 - probe.active, other |-> Frame]
    /\ pc' = probe.other.pc
    /\ tool_calls' = probe.other.tool_calls
    /\ user_input' = probe.other.user_input
    /\ turn_start' = probe.other.turn_start
    /\ requests' = probe.other.requests
    /\ sent' = probe.other.sent
    /\ reply' = probe.other.reply
    /\ ret' = probe.other.ret
    /\ UNCHANGED <<variant, max_messages, messages, message_count, calls, marker_seen>>

SharedNext ==
    \/ SharedAccept
    \/ \E r \in PairFirstReplies : FirstReply(r)
    \/ \E r \in FinalReplies : SecondReply(r)
    \/ ProviderFailure
    \/ Yield

SharedSpec == SharedInit /\ [][SharedNext]_vars

(***************************************************************************)
(* Properties                                                              *)
(***************************************************************************)
TextVariants == {"custom", "step2"}
\* the last call made was accepted and has ended
TurnEnded == pc = "idle" /\ ret.k \in {"str", "raise"}
\* the step is the entry of a call of handle_message
IsCall == calls' = calls + 1
\* the step leaves the session as it was and returns the sentinel at once
IsRejection ==
    /\ ret' = RetNone
    /\ requests' = 0
    /\ pc' = "idle"
    /\ messages' = messages
    /\ message_count' = message_count

\* C1: a turn whose first reply holds no directive issues exactly one
\* completion request, and a turn whose first reply holds at least one
\* directive (registered or not) issues exactly two.
C1_RequestsPerTurn ==
    (variant \in TextVariants /\ TurnEnded /\ ret # Raised("ProviderError"))
        => IF tool_calls = <<>> THEN requests = 1 ELSE requests = 2

\* C2: no turn issues more than two completion requests; reply #2 is not
\* parsed, runs no tool, and its content is appended as one assistant message
\* and returned as it is, also when it looks like a directive.
C2_TwoRoundsOnly ==
    [][ /\ requests' <= 2
        /\ (pc = "await2" /\ pc' = "idle" /\ ret'.k = "str")
             => /\ messages' = Append(messages, [role |-> "assistant",
                                                 content |-> reply'.content])
                /\ ret' = RetStr(reply'.content)
                /\ requests' = requests
                /\ tool_calls' = tool_calls ]_vars

C2_Witness ==
    /\ pc = "idle"
    /\ requests = 2
    /\ ret = RetStr(PosCall("5", "2", "+"))
    /\ messages[Len(messages)] = [role |-> "assistant",
                                  content |-> PosCall("5", "2", "+")]

\* C3: (step2, ollama) a call whose user text holds the marker TERMINATE
\* returns None, issues no completion request, appends nothing and leaves
\* the turn count as it was, whatever the state of the session.
C3_MarkerRejected ==
    [][ (IsCall /\ variant \in {"step2", "ollama"}
            /\ \E i \in 1..Len(user_input') : user_input'[i] = "TERMINATE")
          => IsRejection ]_vars

C3_Witness ==
    /\ variant = "step2"
    /\ pc = "idle"
    /\ calls = 2
    /\ message_count = 1
    /\ user_input = <<"hi", SP, "TERMINATE">>
    /\ ret = RetNone

\* C4: for every configured limit (0 included), once the turn count has
\* reached the limit every call returns None, issues no completion request
\* and changes neither the history nor the turn count.
C4_LimitAlwaysRejects ==
    [][ (IsCall /\ max_messages # NoLimit /\ message_count >= max_messages)
          => IsRejection ]_vars

\* C5: an accepted call raises the turn count by exactly 1, however many
\* tool calls its turn parses or runs; a rejected call and every later step
\* of a turn leave it as it is.
C5_CountOncePerTurn ==
    [][ IF IsCall
        THEN IF pc' = "await1" THEN message_count' = message_count + 1
             ELSE ret' = RetNone /\ message_count' = message_count
        ELSE message_count' = message_count ]_vars

C5_Witness ==
    /\ pc = "idle"
    /\ ret.k = "str"
    /\ Len(tool_calls) = 3
    /\ calls = 2
    /\ message_count = 2

\* C6: once a call was rejected for the marker, every later call of the
\* session returns None and issues no completion request.
C6_MarkerIsTerminal ==
    [][ (marker_seen /\ IsCall) => (ret' = RetNone /\ requests' = 0) ]_vars

\* C7: the custom agent rejects a call whose user text holds the marker or
\* whose session has reached its turn limit.
C7_CustomRejects ==
    [][ (variant = "custom" /\ IsCall
            /\ (HasMarker(user_input')
                \/ (max_messages # NoLimit /\ message_count >= max_messages)))
          => IsRejection ]_vars

\* C8: the history is append-only: the history before a step is a prefix of
\* the history after it.
C8_AppendOnly ==
    [][ /\ Len(messages) <= Len(messages')
        /\ SubSeq(messages', 1, Len(messages)) = messages ]_vars

C8_Witness ==
    /\ pc = "idle"
    /\ calls = 2
    /\ ret = RetNone
    /\ Len(messages) >= 6
    /\ \E i \in 1..Len(messages) : messages[i].role = "tool"

\* C9: the history holds exactly one system message, and it is the first.
C9_OneSystemMessageFirst ==
    /\ Len(messages) >= 1
    /\ messages[1] = [role |-> "system", content |-> SystemMessage(variant)]
    /\ \A i \in 2..Len(messages) : messages[i].role # "system"

C9_Witness ==
    /\ pc = "idle"
    /\ message_count = 2
    /\ Len(messages) >= 7

\* C10: in a turn with tool calls exactly one tool message is appended per
\* call of a registered tool, in parsed order, with the call's id and name,
\* right after the first assistant message and before request #2, whose
\* snapshot holds them all.
C10_ToolMessagePerRegisteredCall ==
    (variant \in TextVariants /\ tool_calls # <<>>
        /\ (pc = "await2" \/ TurnEnded))
      => LET reg == SelectSeq(tool_calls, Registered)
             first == turn_start + 3
             last == turn_start + 2 + Len(reg)
         IN  /\ Len(messages) >= last
             /\ messages[turn_start + 2].role = "assistant"
             /\ \A i \in 1..Len(reg) :
                    /\ messages[first + i - 1].role = "tool"
                    /\ messages[first + i - 1].tool_call_id = reg[i].id
                    /\ messages[first + i - 1].name = reg[i].name
             /\ \A i \in (turn_start + 1)..Len(messages) :
                    messages[i].role = "tool" => i \in first..last
             /\ requests = 2
             /\ sent = SubSeq(messages, 1, last)

\* the messages appended since the last call of handle_message was made
TurnMessages == SubSeq(messages, turn_start + 1, Len(messages))
IsToolMessage(m) == m.role = "tool"
\* the last call made ended with the TypeError of a tool invocation
TurnRaised == pc = "idle" /\ ret = Raised("TypeError")

C12_NoReplyFails ==
    (variant \in TextVariants /\ TurnEnded /\ ret # Raised("ProviderError"))
        => ret.k = "str"

\* the call is a calculator call that binds, with operator '/' and b equal to 0
DividesByZero(tool_call) ==
    /\ tool_call.name = "calculator"
    /\ DOMAIN tool_call.arguments.json = {"a", "b", "operator"}
    /\ tool_call.arguments.json["operator"] = Str("/")
    /\ tool_call.arguments.json["b"] \in {Float(0, 1), Bool(FALSE)}

ArithmeticFails(args) ==
    LET a == args["a"]
        b == args["b"]
        operator == args["operator"]
        numbers == a.k \in {"float", "bool"} /\ b.k \in {"float", "bool"}
        strings == a.k = "str" /\ b.k = "str"
        repeats == \/ a.k = "str" /\ b.k = "bool"
                   \/ a.k = "bool" /\ b.k = "str"
    IN  \/ operator \notin {Str("+"), Str("-"), Str("*"), Str("/")}
        \/ operator = Str("+") /\ ~numbers /\ ~strings
        \/ operator = Str("-") /\ ~numbers
        \/ operator = Str("*") /\ ~numbers /\ ~repeats
        \/ operator = Str("/") /\ (~numbers \/ b \in {Float(0, 1), Bool(FALSE)})

\* C14: for every combination of operands (numbers, or strings left by a
\* failed conversion) and operator the calculator returns a string and never
\* raises; an arithmetic failure or an unsupported operator is returned as a
\* string that starts with "Error: ".
C14_CalculatorTotal ==
    probe.op = "result"
      => /\ probe.result.k = "str"
         /\ ArithmeticFails(probe.args)
              => /\ Len(probe.result.text) >= 1
                 /\ Head(probe.result.text) = "Error: "

C14_Witness ==
    /\ probe.op = "result"
    /\ probe.args = [a |-> Str("x"), b |-> Float(2, 1), operator |-> Str("+")]
    /\ probe.result =
           RetStr(<<"Error: ", "can only concatenate str (not \"float\") to str">>)

Carries(m, field) == field \in DOMAIN m

\* C15: every message of the history of every agent carries a tool name and
\* a tool-call id if and only if its role is tool, and carries a tool_calls
\* list only if its role is assistant and the list is not empty.
C15_MessageInvariant ==
    \A i \in 1..Len(messages) :
        LET m == messages[i]
        IN  /\ Carries(m, "name") <=> m.role = "tool"
            /\ Carries(m, "tool_call_id") <=> m.role = "tool"
            /\ Carries(m, "tool_calls")
                  => m.role = "assistant" /\ m.tool_calls # <<>>

\* C15 (amended): every message of every agent carries a tool name if and
\* only if its role is tool, a tool-call id only if its role is tool, and a
\* tool_calls list only if its role is assistant and the list is not empty.
\* Every tool message of the custom and step2 agents carries a tool-call id;
\* a tool message of the ollama agent carries one exactly when the
\* provider's call object has an id.
C15_MessageInvariantAmended ==
    /\ \A i \in 1..Len(messages) :
           LET m == messages[i]
           IN  /\ Carries(m, "name") <=> m.role = "tool"
               /\ Carries(m, "tool_call_id") => m.role = "tool"
               /\ (variant \in TextVariants /\ m.role = "tool")
                     => Carries(m, "tool_call_id")
               /\ Carries(m, "tool_calls")
                     => m.role = "assistant" /\ m.tool_calls # <<>>
    /\ (variant = "ollama" /\ pc = "await2")
          => LET answers == SelectSeq(TurnMessages, IsToolMessage)
                 reg == SelectSeq(tool_calls, Registered)
             IN  /\ Len(answers) = Len(reg)
                 /\ \A k \in 1..Len(reg) :
                        IF reg[k].id = None
                        THEN ~Carries(answers[k], "tool_call_id")
                        ELSE /\ Carries(answers[k], "tool_call_id")
                             /\ answers[k].tool_call_id = reg[k].id

C15_Witness ==
    /\ variant = "ollama"
    /\ pc = "await2"
    /\ \E i, j \in 1..Len(messages) :
           /\ messages[i].role = "tool"
           /\ ~Carries(messages[i], "tool_call_id")
           /\ Carries(messages[i], "name")
           /\ messages[j].role = "tool"
           /\ Carries(messages[j], "tool_call_id")

\* the call list a message carries: a message without the field carries none
CallsOf(m) == IF Carries(m, "tool_calls") THEN m.tool_calls ELSE <<>>

\* C16: the step that receives reply #1 of an accepted turn appends exactly
\* one assistant message, whose content is the reply with its directives
\* removed and which carries the parsed call list; when that list is empty
\* the call returns that same clean content and the assistant message is the
\* last of the history.
C16_FirstAssistantMessage ==
    [][ (variant \in TextVariants /\ pc = "await1" /\ messages' # messages)
          => LET m == messages'[Len(messages) + 1]
                 parsed == _parse_tool_calls(variant, reply'.content)
             IN  /\ SubSeq(messages', 1, Len(messages)) = messages
                 /\ m.role = "assistant"
                 /\ m.content = _remove_tool_calls_from_content(reply'.content)
                 /\ CallsOf(m) = parsed
                 /\ \A i \in (Len(messages) + 2)..Len(messages') :
                        messages'[i].role # "assistant"
                 /\ parsed = <<>>
                      => /\ ret' = RetStr(m.content)
                         /\ pc' = "idle"
                         /\ Len(messages') = Len(messages) + 1 ]_vars

C16_Witness ==
    /\ variant = "custom"
    /\ pc = "idle"
    /\ reply.content = <<"hi", SP, TC, SP, "hi", SP, TE>>
    /\ tool_calls = <<>>
    /\ ret = RetStr(<<"hi">>)
    /\ messages[Len(messages)] = [role |-> "assistant", content |-> <<"hi">>]
    /\ messages[Len(messages) - 1].role = "user"

\* C17: _remove_tool_calls_from_content is idempotent for every text:
\* applied to its own output it returns that output unchanged, also when
\* removing a span joins the text around it into a new span.
C17_RemoveIdempotent ==
    probe.op = "recleaned" => probe.again = probe.clean_content

RECURSIVE RemoveMatched(_, _)
\* the text s from position i on without the spans the directive pattern matches
RemoveMatched(s, i) ==
    IF i > Len(s) THEN <<>>
    ELSE LET mt == MatchAt(s, i)
         IN  IF mt.ok THEN RemoveMatched(s, mt.end)
             ELSE <<s[i]>> \o RemoveMatched(s, i + 1)

\* C18: for every reply text the spans _remove_tool_calls_from_content
\* removes are exactly the spans _parse_tool_calls matched as directives:
\* the clean content is the text without the parsed directives (delimiters
\* included), trimmed at both ends, and text the parser did not match stays.
C18_RemovedAreParsed ==
    probe.op = "cleaned"
      => probe.clean_content = Strip(Rejoin(RemoveMatched(probe.content, 1)))

\* t is s with whitespace removed at its two ends and nothing else
TrimmedOnly(s, t) ==
    /\ \E i \in 1..(Len(s) + 1), j \in 0..Len(s) :
           /\ t = SubSeq(s, i, j)
           /\ \A k \in 1..(i - 1) : s[k] \in {SP, NL}
           /\ \A k \in (j + 1)..Len(s) : s[k] \in {SP, NL}
    /\ t # <<>> => t[1] \notin {SP, NL} /\ t[Len(t)] \notin {SP, NL}

\* C19: for every text that holds no "TOOL_CALL:", _parse_tool_calls returns
\* the empty list and _remove_tool_calls_from_content returns the text with
\* only its leading and trailing whitespace removed.
C19_NoDelimiterNoCall ==
    (probe.op = "cleaned"
        /\ \A i \in 1..Len(probe.content) : probe.content[i] # "TOOL_CALL:")
      => /\ probe.tool_calls = <<>>
         /\ TrimmedOnly(probe.content, probe.clean_content)

C19_Witness ==
    /\ probe.op = "cleaned"
    /\ probe.content = <<SP, "hi", "TOOL_CALL_END", SP>>
    /\ probe.tool_calls = <<>>
    /\ probe.clean_content = <<"hi", "TOOL_CALL_END">>

\* the ids call_k of the first calls of a message, written out
NumberedIds == <<"call_0", "call_1", "call_2", "call_3">>

\* C20: _parse_tool_calls returns one call per matched directive, in the
\* order of the text, and the k-th call (from 0) has the id "call_k": the ids
\* of one message are pairwise distinct, and every message of the history
\* that carries calls numbers them from call_0 again.
C20_CallIdsNumbered ==
    variant \in TextVariants
      => /\ \A i \in 1..Len(messages) :
                Carries(messages[i], "tool_calls")
                  => LET cs == messages[i].tool_calls
                     IN  /\ Len(cs) <= Len(NumberedIds)
                         /\ \A k \in 1..Len(cs) : cs[k].id = NumberedIds[k]
                         /\ \A k, l \in 1..Len(cs) : cs[k].id = cs[l].id => k = l
         /\ (pc = "await2" \/ TurnRaised)
              => LET matches == FindIter(reply.content, 1)
                 IN  /\ Len(tool_calls) = Len(matches)
                     /\ \A k \in 1..Len(matches) :
                            tool_calls[k].name = matches[k].name
                     /\ messages[turn_start + 2].tool_calls = tool_calls

C20_Witness ==
    /\ variant = "custom"
    /\ pc = "await2"
    /\ message_count = 2
    /\ [k \in 1..Len(tool_calls) |-> tool_calls[k].name]
           = <<"calculator", "foo", "calculator">>
    /\ [k \in 1..Len(tool_calls) |-> tool_calls[k].id]
           = <<"call_0", "call_1", "call_2">>
    /\ \E i \in 1..turn_start :
           /\ Carries(messages[i], "tool_calls")
           /\ messages[i].tool_calls[1].id = "call_0"

\* the positional parser was applied to the directive of probe.parts
PositionalDone == probe.op \in {"positional", "both"}
\* the mapping it bound (the directive holds one call)
PositionalMapping == probe.positional[1].arguments.json
Min(x, y) == IF x <= y THEN x ELSE y

\* C21: for a directive of a registered tool with n declared parameters and m
\* top-level arguments, the positional mapping binds the i-th argument to
\* the i-th parameter for every i up to min(m, n), has no other key, and the
\* arguments beyond the n-th are dropped without an error.
C21_PositionalBinding ==
    PositionalDone
      => LET m == Len(probe.parts)
             n == Len(param_names)
         IN  /\ Len(probe.positional) = 1
             /\ probe.positional[1].name = "calculator"
             /\ DOMAIN PositionalMapping = {param_names[i] : i \in 1..Min(m, n)}
             /\ \A i \in 1..Min(m, n) :
                    PositionalMapping[param_names[i]]
                        = CoercePositional(probe.parts[i], param_type[param_names[i]])

C21_Witness ==
    /\ probe.op = "positional"
    /\ probe.parts = << <<"5">>, <<"-", "5">>, <<QS, "+", QS>>, <<"2", DOT, "5">> >>
    /\ PositionalMapping = [a |-> Float(5, 1), b |-> Float(-5, 1), operator |-> Str("+")]

\* the mapping the keyed parser bound (when it returned)
KeyedMapping == probe.keyed[1].arguments.json

\* C22: both parsers split the argument list exactly at its top-level
\* commas: a comma inside quotes separates nothing, so that the i-th
\* argument of either parser is the whole i-th part of the list.
C22_TopLevelCommas ==
    probe.op = "both"
      => LET m == Len(probe.parts)
         IN  /\ \A i \in 1..Min(m, Len(param_names)) :
                    /\ param_names[i] \in DOMAIN PositionalMapping
                    /\ PositionalMapping[param_names[i]]
                          = CoercePositional(probe.parts[i], param_type[param_names[i]])
             /\ probe.raised = None
             /\ DOMAIN KeyedMapping = {KeyedNames[i] : i \in 1..m}
             /\ \A i \in 1..m :
                    KeyedMapping[KeyedNames[i]] = CoerceKeyed(probe.parts[i])

\* the raw argument without one pair of surrounding quotes, removed only when
\* its first and last character are the same quote character
OneLayer(raw) ==
    IF Len(raw) >= 2 /\ raw[1] \in {QS, QD} /\ raw[Len(raw)] = raw[1]
    THEN SubSeq(raw, 2, Len(raw) - 1)
    ELSE raw

\* C23: the positional coercer removes at most one layer of quoting: the
\* value it converts is the raw argument without one matching pair of
\* surrounding quotes; further or unmatched quotes at either end are kept.
C23_OneLayerOfQuotes ==
    PositionalDone
      => \A i \in 1..Min(Len(probe.parts), Len(param_names)) :
             LET unquoted == OneLayer(probe.parts[i])
                 number == param_type[param_names[i]] = "float"
                               /\ ParseFloat(unquoted).ok
             IN  PositionalMapping[param_names[i]]
                     = IF number THEN ParseFloat(unquoted).v
                       ELSE Str(Join(unquoted))

\* the forms of ArgForms that spell a number, and the numbers they spell
NumericForms == {<<"5">>, <<"-", "5">>, <<"2", DOT, "5">>}
NumberOf(raw) ==
    IF raw = <<"5">> THEN Float(5, 1)
    ELSE IF raw = <<"-", "5">> THEN Float(-5, 1)
    ELSE Float(5, 2)
\* the forms of ArgForms as Python strings without the quotes at their ends
Unquoted(raw) ==
    IF raw \in {<<QS, "+", QS>>, <<QD, QS, "+", QS, QD>>} THEN "+"
    ELSE IF raw = <<QD, "a", COMMA, "b", QD>> THEN "a,b"
    ELSE IF raw = <<QD, "x", QS>> THEN "x"
    ELSE Join(raw)
\* what the arguments other than a failed number are bound to
CoercedNormally(i) ==
    IF param_type[param_names[i]] = "float"
    THEN probe.parts[i] \in NumericForms
           => PositionalMapping[param_names[i]] = NumberOf(probe.parts[i])
    ELSE PositionalMapping[param_names[i]] = Str(Unquoted(probe.parts[i]))
\* the i-th argument goes to a float parameter and spells no number
FailsConversion(i) ==
    param_type[param_names[i]] = "float" /\ probe.parts[i] \notin NumericForms

BothDone == probe.op = "both" /\ Len(probe.parts) = 3
OperatorForms == {<<"+">>, <<"/">>, <<QS, "+", QS>>}
\* numbers written with digits and at most one decimal point
PlainNumbers == {<<"5">>, <<"2", DOT, "5">>}

\* C25: for every numeric X and Y (negative and fractional included) and
\* every operator OP, quoted or unquoted, the keyed parser applied to
\* calculator(a=X, b=Y, operator=OP) yields the same mapping as the
\* positional parser applied to calculator(X, Y, OP).
C25_KeyedEqualsPositional ==
    ( /\ BothDone
      /\ probe.parts[1] \in NumericForms
      /\ probe.parts[2] \in NumericForms
      /\ probe.parts[3] \in OperatorForms )
      => KeyedMapping = PositionalMapping

\* C25 (amended): for X and Y written with digits and at most one decimal
\* point (no sign) and an operator OP written without quotes, the keyed
\* parser applied to calculator(a=X, b=Y, operator=OP) yields the same
\* mapping as the positional parser applied to calculator(X, Y, OP): a and b
\* are the two numbers and operator is the string OP.
C25_KeyedEqualsPositionalPlain ==
    ( /\ BothDone
      /\ probe.parts[1] \in PlainNumbers
      /\ probe.parts[2] \in PlainNumbers
      /\ probe.parts[3] \in {<<"+">>, <<"/">>} )
      => /\ KeyedMapping = PositionalMapping
         /\ KeyedMapping = [a |-> NumberOf(probe.parts[1]),
                            b |-> NumberOf(probe.parts[2]),
                            operator |-> Str(probe.parts[3][1])]

C25_Witness ==
    /\ BothDone
    /\ probe.parts = << <<"5">>, <<"2", DOT, "5">>, <<"+">> >>
    /\ KeyedMapping = [a |-> Float(5, 1), b |-> Float(5, 2), operator |-> Str("+")]
    /\ PositionalMapping = KeyedMapping

\* no argument of the list holds a comma, so that the keyed list splits into
\* its name=value pairs
PlainPairs == \A i \in 1..Len(probe.parts) : \A j \in 1..Len(probe.parts[i]) :
                  probe.parts[i][j] # COMMA
\* what a keyed value becomes by its looks alone
KeyedValue(raw) ==
    IF raw \in PlainNumbers THEN NumberOf(raw)
    ELSE IF raw = <<"True">> THEN Bool(TRUE)
    ELSE IF raw = <<"FALSE">> THEN Bool(FALSE)
    ELSE Str(Join(raw))

\* C26: the keyed parser converts every name=value pair by the looks of the
\* value alone: digits with at most one decimal point become a number,
\* true/false in any letter case a boolean, every other value stays the
\* string it was written as; the key is inserted whether calculator
\* declares it or not.
C26_KeyedCoercion ==
    (probe.op = "both" /\ PlainPairs)
      => /\ probe.raised = None
         /\ Len(probe.keyed) = 1
         /\ DOMAIN KeyedMapping = {KeyedNames[i] : i \in 1..Len(probe.parts)}
         /\ \A i \in 1..Len(probe.parts) :
                KeyedMapping[KeyedNames[i]] = KeyedValue(probe.parts[i])

\* the user messages of a history
UserContents(msgs) == {msgs[i].content : i \in {j \in 1..Len(msgs) : msgs[j].role = "user"}}
\* the caller turned to the other session: the two sessions changed places
\* and nothing else happened
ChangedPlaces ==
    /\ probe'.active = 3 - probe.active
    /\ Session' = probe.peer
    /\ probe'.peer = Session
\* the session at hand took a step it can take when it runs alone, and the
\* other session is as it was
StepAlone ==
    /\ probe' = probe
    /\ Next

\* C27: two sessions interleaved step by step in any order each behave as
\* if run alone: every step is a step of one session by the rules of a
\* session running alone that leaves the history, turn count, return value
\* and call state of the other as they were, and the history of a session
\* holds the user messages of its own user only.
C27_SessionsIsolated ==
    [][ /\ ChangedPlaces \/ StepAlone
        /\ UserContents(messages') \subseteq {PairInput(probe'.active)}
        /\ UserContents(probe'.peer.messages) \subseteq {PairInput(3 - probe'.active)}
      ]_vars

\* both sessions are in the middle of a turn, one awaiting reply #1 and the
\* other, after its tools ran, reply #2
C27_Witness ==
    /\ probe.op = "pair"
    /\ pc = "await1"
    /\ probe.peer.pc = "await2"
    /\ Len(probe.peer.messages) > Len(messages)
    /\ UserContents(messages) # UserContents(probe.peer.messages)

HasCalls(m) == "tool_calls" \in DOMAIN m
RECURSIVE SkipTools(_, _)
\* the index of the first message from the i-th on that is no tool message
SkipTools(msgs, i) ==
    IF i <= Len(msgs) /\ msgs[i].role = "tool" THEN SkipTools(msgs, i + 1) ELSE i
RECURSIVE TurnsFrom(_, _)
\* the messages from the i-th on are whole turns (user, assistant, or user,
\* assistant with calls, tool results, assistant) followed by at most the
\* turn whose request is being made
TurnsFrom(msgs, i) ==
    IF i > Len(msgs) THEN TRUE
    ELSE IF msgs[i].role # "user" THEN FALSE
    ELSE IF i = Len(msgs) THEN TRUE
    ELSE IF msgs[i + 1].role # "assistant" THEN FALSE
    ELSE IF ~HasCalls(msgs[i + 1]) THEN TurnsFrom(msgs, i + 2)
    ELSE LET j == SkipTools(msgs, i + 2)
         IN  IF j > Len(msgs) THEN TRUE
             ELSE /\ msgs[j].role = "assistant"
                  /\ ~HasCalls(msgs[j])
                  /\ TurnsFrom(msgs, j + 1)
\* the system message followed by turns
PerTurnStructure(msgs) ==
    /\ msgs # <<>>
    /\ msgs[1].role = "system"
    /\ TurnsFrom(msgs, 2)
\* the other caller is inside handle_message, between two of its steps
OtherMidTurn(other) == other.pc \in {"await1", "await2"}
\* a history that holds the user message of the other caller's unfinished turn
HoldsPartialTurn(msgs, other) ==
    /\ Len(msgs) > other.turn_start
    /\ msgs[other.turn_start + 1] = [role |-> "user", content |-> other.user_input]
\* the running caller issues a completion request in this step
RequestIssued ==
    /\ probe'.active = probe.active
    /\ pc' # pc
    /\ pc' \in {"await1", "await2"}

\* C28: with two callers on one session and no lock around the turn, a
\* completion request issued while the other caller is inside its turn goes
\* out over a history that holds the other turn's unfinished messages and
\* no longer has the per-turn message structure.
C28_PartialTurnInRequest ==
    [][ (RequestIssued /\ OtherMidTurn(probe.other))
          => /\ sent' = messages'
             /\ HoldsPartialTurn(sent', probe.other)
             /\ ~PerTurnStructure(sent')
      ]_vars

\* request #1 of one caller is in flight over a history in which the other
\* caller's assistant message with tool calls and its tool results come
\* before the user message of this turn, without a final answer
C28_Witness ==
    /\ probe.op = "shared"
    /\ pc = "await1"
    /\ probe.other.pc = "await2"
    /\ turn_start > probe.other.turn_start
    /\ HoldsPartialTurn(sent, probe.other)
    /\ HasCalls(sent[probe.other.turn_start + 2])
    /\ sent[Len(sent) - 1].role = "tool"
    /\ sent[Len(sent)] = [role |-> "user", content |-> user_input]
    /\ ~PerTurnStructure(sent)

\* the text of the system message for a base instruction, written out
SystemText(base) ==
    Join(base) \o "\n\n"
    \o "You have access to the following tools:\n\n"
    \o "- calculator: Performs basic arithmetic operations on two numbers.\n"
    \o "  Parameters:\n"
    \o "    - a: The first number (float)\n"
    \o "    - b: The second number (float)\n"
    \o "    - operator: The arithmetic operator (+, -, *, /)\n"
    \o "  Example: calculator(5, 3, '+') returns '8'\n\n"
    \o "To use a tool, format your response as follows:\n"
    \o "TOOL_CALL: <tool_name>(<param1>, <param2>, ...)\n"
    \o "TOOL_CALL_END\n\n"
    \o "After the tool is called, you will receive the result and should continue your response.\n"
\* the system message of the session at hand and of the other session
OwnSystem == messages[1]
PeerSystem == probe.peer.messages[1]

\* C29: the system message of a session is the base instruction followed by
\* the tool catalogue (calculator once: name, description, parameters a, b,
\* operator in this order, example) and the fixed TOOL_CALL instructions;
\* it stays what it was built as, and two sessions built from the same base
\* instruction have the same system message.
C29_SystemMessageDetermined ==
    probe.op = "pair"
      => /\ OwnSystem.role = "system"
         /\ PeerSystem.role = "system"
         /\ Join(OwnSystem.content) = SystemText(probe.base[probe.active])
         /\ Join(PeerSystem.content) = SystemText(probe.base[3 - probe.active])
         /\ probe.base[1] = probe.base[2] => OwnSystem = PeerSystem

\* two sessions built from the same base instruction, one of them after a
\* whole turn with tool calls, the other after none
C29_Witness ==
    /\ probe.op = "pair"
    /\ probe.base[1] = probe.base[2]
    /\ OwnSystem = PeerSystem
    /\ Len(messages) > 3
    /\ Len(probe.peer.messages) = 1
    /\ pc = "idle"

\* the step is the arrival of a reply
ReplyArrives ==
    \/ \E r \in AllFirstReplies : FirstReply(r)
    \/ \E r \in FinalReplies : SecondReply(r)
\* the wait for a completion ends without a reply: the request failed
RequestFails == pc \in {"await1", "await2"} /\ pc' = "idle" /\ ~ReplyArrives
UserMessages(msgs) == {i \in 1..Len(msgs) : msgs[i].role = "user"}
\* the turn of the last call as request #1 left it: counted, and the user
\* message the newest of the history
CountedAndAppended(msgs, count) ==
    /\ Len(msgs) = turn_start + 1
    /\ msgs[turn_start + 1] = [role |-> "user", content |-> user_input]
    /\ count = Cardinality(UserMessages(msgs))
\* the turn of the last call as request #2 left it: the user message, the
\* assistant message of reply #1 and tool messages, and no final answer
NoFinalAnswer(msgs) ==
    /\ Len(msgs) >= turn_start + 2
    /\ msgs[turn_start + 1] = [role |-> "user", content |-> user_input]
    /\ msgs[turn_start + 2].role = "assistant"
    /\ \A i \in (turn_start + 3)..Len(msgs) : msgs[i].role = "tool"
    /\ msgs = sent

\* C30: a failure of the completion provider leaves handle_message as the
\* exception it is, never as None or an answer, and nothing is rolled back:
\* the history and the turn count stay as the failed request found them,
\* the turn counted and its user message appended when request #1 fails,
\* the assistant and tool messages of the turn in place without a final
\* assistant message when request #2 fails.
C30_ProviderFailurePropagates ==
    [][ RequestFails
          => /\ ret' = Raised("ProviderError")
             /\ messages' = messages
             /\ message_count' = message_count
             /\ pc = "await1" => CountedAndAppended(messages', message_count')
             /\ pc = "await2" => NoFinalAnswer(messages')
      ]_vars

\* request #2 of the second call failed after a tool ran: the tool message
\* is the newest of the history
C30_Witness ==
    /\ pc = "idle"
    /\ ret = Raised("ProviderError")
    /\ requests = 2
    /\ calls = 2
    /\ NoFinalAnswer(messages)
    /\ messages[Len(messages)].role = "tool"

RECURSIVE WholeTurns(_, _)
\* the messages from the i-th on are whole turns: (user, assistant) or (user,
\* assistant with tool calls, tool messages, assistant)
WholeTurns(msgs, i) ==
    IF i > Len(msgs) THEN TRUE
    ELSE IF msgs[i].role # "user" \/ i = Len(msgs) THEN FALSE
    ELSE IF msgs[i + 1].role # "assistant" THEN FALSE
    ELSE IF ~HasCalls(msgs[i + 1]) THEN WholeTurns(msgs, i + 2)
    ELSE LET j == SkipTools(msgs, i + 2)
         IN  /\ j <= Len(msgs)
             /\ msgs[j].role = "assistant"
             /\ ~HasCalls(msgs[j])
             /\ WholeTurns(msgs, j + 1)
\* one system message, then whole turns
HistoryShape(msgs) ==
    /\ msgs # <<>>
    /\ msgs[1].role = "system"
    /\ WholeTurns(msgs, 2)
\* the history as the last call found it
HistoryBefore == SubSeq(messages, 1, turn_start)
\* no call is running, and the last one did not end by a provider failure
BetweenTurns == pc = "idle" /\ ret # Raised("ProviderError")

\* C31: between turns the history is one system message followed by whole
\* turns, (user, assistant) or (user, assistant with tool calls, tool
\* messages, assistant): a call that found the history in this shape leaves
\* it in this shape, with an assistant message last once a turn was
\* accepted, and a rejected call leaves the history as it found it.
C31_HistoryShape ==
    (variant \in TextVariants /\ BetweenTurns
        /\ (calls = 0 \/ HistoryShape(HistoryBefore)))
      => /\ HistoryShape(messages)
         /\ message_count >= 1 => messages[Len(messages)].role = "assistant"
         /\ ret = RetNone => messages = HistoryBefore

\* C32: whenever no call is running, the turn count is the number of user
\* messages of the history, and no step of a session lowers it.
C32_CountIsUserMessages ==
    /\ [](pc = "idle" => message_count = Cardinality(UserMessages(messages)))
    /\ [][message_count' >= message_count]_vars

\* two turns were accepted and counted, the second one after a first that
\* ran a tool, and a call is about to be made
C32_Witness ==
    /\ pc = "idle"
    /\ calls = 2
    /\ message_count = 2
    /\ Cardinality(UserMessages(messages)) = 2
    /\ \E i \in 1..Len(messages) : messages[i].role = "tool"

\* the index of the nearest assistant message before the i-th message (0
\* when there is none)
NearestAssistant(msgs, i) ==
    LET before == {j \in 1..(i - 1) : msgs[j].role = "assistant"}
    IN  IF before = {} THEN 0 ELSE CHOOSE j \in before : \A k \in before : k <= j
ToolMessages(msgs) == {i \in 1..Len(msgs) : msgs[i].role = "tool"}
\* the i-th message, a tool message, answers a call of the assistant message
\* before it
AnswersCall(msgs, i) ==
    LET a == NearestAssistant(msgs, i)
    IN  /\ a > 0
        /\ HasCalls(msgs[a])
        /\ "tool_call_id" \in DOMAIN msgs[i]
        /\ "name" \in DOMAIN msgs[i]
        /\ \E k \in 1..Len(msgs[a].tool_calls) :
               /\ msgs[a].tool_calls[k].id = msgs[i].tool_call_id
               /\ msgs[a].tool_calls[k].name = msgs[i].name

\* C33: every tool message of the history answers a call of its own turn:
\* the nearest assistant message before it carries a tool_calls list with a
\* call of the same id and the same tool name, and no two tool messages of
\* one turn have the same tool-call id.
C33_ToolMessagesAnswerCalls ==
    variant \in TextVariants
      => /\ \A i \in ToolMessages(messages) : AnswersCall(messages, i)
         /\ \A i, j \in ToolMessages(messages) :
                (i < j /\ NearestAssistant(messages, i) = NearestAssistant(messages, j))
                  => messages[i].tool_call_id # messages[j].tool_call_id

\* two turns of which each ran the calculator twice and skipped a call of an
\* unregistered tool between the two: four tool messages, two per turn
C33_Witness ==
    /\ variant \in TextVariants
    /\ pc = "idle"
    /\ ret.k = "str"
    /\ Cardinality(ToolMessages(messages)) = 4
    /\ \E i \in ToolMessages(messages) :
           /\ i + 1 \in ToolMessages(messages)
           /\ messages[i].tool_call_id = "call_0"
           /\ messages[i + 1].tool_call_id = "call_2"
           /\ NearestAssistant(messages, i + 1) = i - 1
====
